---------------------------- MODULE Spec2Model ----------------------------
(***************************************************************************)
(* A model of the market trading dashboard: the position sizer and the     *)
(* opportunity scorer (forex_data_processor.py, dashboard.py), the ranking *)
(* pass over the pair universe, and the dashboard's refresh/render loop.   *)
(*                                                                         *)
(* Numbers.  The program computes in binary floating point.  The model     *)
(* computes in exact rationals <<n, d>> (d > 0, lowest terms) and adds the *)
(* two special values the program can produce, NaN and Inf.  A division by *)
(* zero depends on the operand types: Python floats raise                  *)
(* ZeroDivisionError, numpy.float64 operands yield nan or inf.  The kind   *)
(* ("py" or "np") of the operands is therefore carried where it matters.   *)
(***************************************************************************)
EXTENDS Integers, Sequences, FiniteSets, TLC

VARIABLES
    pc,                 \* position of main(): "start", "constructed", "running", "exited"
    market_data,        \* MarketOpportunityDashboard.market_data (rows in order)
    opportunity_cache,  \* MarketOpportunityDashboard.opportunity_cache (rows in order)
    last_update,        \* MarketOpportunityDashboard.last_update (None until set)
    update_interval,    \* MarketOpportunityDashboard.update_interval
    min_risk_reward,    \* trading_config['min_risk_reward']
    update_counter,     \* local update_counter of run_dashboard
    now,                \* the wall clock read by datetime.now()
    displayed,          \* what the last generate_layout() read and put on screen
    pass,               \* bookkeeping of the last load_market_data pass
    analysed,           \* the market data the last completed analysis ranked
    call,               \* the last direct call of a pure function and its outcome
    runs                \* records produced so far by the per-pair pipeline

vars == <<pc, market_data, opportunity_cache, last_update, update_interval,
          min_risk_reward, update_counter, now, displayed, pass, analysed,
          call, runs>>

-----------------------------------------------------------------------------
(* Exact rational arithmetic.                                              *)

RECURSIVE GCD(_, _)
GCD(a, b) == IF b = 0 THEN a ELSE GCD(b, a % b)

Abs(x) == IF x < 0 THEN -x ELSE x

\* The rational n/d in lowest terms, d > 0.
Rat(n, d) ==
    LET g == GCD(Abs(n), d) IN <<n \div g, d \div g>>

Num(n) == <<n, 1>>

RNeg(x) == <<-x[1], x[2]>>

RAdd(x, y) ==
    LET g == GCD(x[2], y[2])
        l == x[2] * (y[2] \div g)
    IN  Rat(x[1] * (l \div x[2]) + y[1] * (l \div y[2]), l)

RSub(x, y) == RAdd(x, RNeg(y))

RMul(x, y) ==
    LET g1 == GCD(Abs(x[1]), y[2])
        g2 == GCD(Abs(y[1]), x[2])
    IN  <<(x[1] \div g1) * (y[1] \div g2), (x[2] \div g2) * (y[2] \div g1)>>

\* 1/x for x # 0.
RInv(x) == IF x[1] > 0 THEN <<x[2], x[1]>> ELSE <<-x[2], -x[1]>>

RDiv(x, y) == RMul(x, RInv(y))

RLt(x, y) ==
    LET g == GCD(x[2], y[2])
    IN  x[1] * (y[2] \div g) < y[1] * (x[2] \div g)

RLe(x, y) == ~RLt(y, x)

RAbs(x) == <<Abs(x[1]), x[2]>>

-----------------------------------------------------------------------------
(* Floating-point values: a rational, NaN or Inf.                          *)

NaN == <<0, 0>>
Inf == <<1, 0>>

IsNaN(x) == x = NaN
IsFinite(x) == x[2] > 0

\* x + y: nan + anything = nan, inf + finite = inf.
FAdd(x, y) ==
    IF IsNaN(x) \/ IsNaN(y) THEN NaN
    ELSE IF x = Inf \/ y = Inf THEN Inf
    ELSE RAdd(x, y)

\* x - y for finite y.
FSub(x, y) ==
    IF IsNaN(x) \/ IsNaN(y) THEN NaN
    ELSE IF x = Inf THEN Inf
    ELSE RSub(x, y)

\* x * y: nan * anything = nan, inf * positive = inf.
FMul(x, y) ==
    IF IsNaN(x) \/ IsNaN(y) THEN NaN
    ELSE IF x = Inf \/ y = Inf
         THEN (IF x = Num(0) \/ y = Num(0) THEN NaN ELSE Inf)
    ELSE RMul(x, y)

\* x / y in numpy for x >= 0: 0/0 = nan, positive/0 = inf, finite/inf = 0.
FDiv(x, y) ==
    IF IsNaN(x) \/ IsNaN(y) THEN NaN
    ELSE IF y = Inf THEN (IF x = Inf THEN NaN ELSE Num(0))
    ELSE IF x = Inf THEN Inf
    ELSE IF y = Num(0) THEN (IF x = Num(0) THEN NaN ELSE Inf)
    ELSE RDiv(x, y)

\* Comparisons: every comparison with nan is False.
FLt(x, y) ==
    IF IsNaN(x) \/ IsNaN(y) THEN FALSE
    ELSE IF x = Inf THEN FALSE
    ELSE IF y = Inf THEN TRUE
    ELSE RLt(x, y)

FGt(x, y) == FLt(y, x)

FLe(x, y) ==
    IF IsNaN(x) \/ IsNaN(y) THEN FALSE
    ELSE IF y = Inf THEN TRUE
    ELSE IF x = Inf THEN FALSE
    ELSE RLe(x, y)

FGe(x, y) == FLe(y, x)

\* Python's builtin min(a, b): b if b < a else a; max(a, b): b if b > a else a.
PyMin(a, b) == IF FLt(b, a) THEN b ELSE a
PyMax(a, b) == IF FGt(b, a) THEN b ELSE a

\* abs(x)
FAbs(x) == IF IsFinite(x) THEN RAbs(x) ELSE x

-----------------------------------------------------------------------------
(* Static tables of ForexDataProcessor.                                    *)

\* position_config: currency -> <<base_lot, risk_factor in tenths>>
position_config ==
    [EUR |-> <<100000, 10>>, GBP |-> <<80000, 12>>, USD |-> <<100000, 10>>,
     JPY |-> <<10000000, 8>>, CHF |-> <<100000, 9>>, AUD |-> <<100000, 13>>,
     NZD |-> <<100000, 14>>, CAD |-> <<100000, 11>>]

\* self.position_config.get(base_currency, {'base_lot': 100000, 'risk_factor': 1.0})
PositionConfig(base_currency) ==
    IF base_currency \in DOMAIN position_config
    THEN position_config[base_currency]
    ELSE <<100000, 10>>

\* currency_volatility, in hundredths
currency_volatility ==
    [JPY |-> 120, CHF |-> 90, EUR |-> 100, GBP |-> 95, USD |-> 100,
     AUD |-> 85, NZD |-> 85, CAD |-> 90]

\* currency_volatility.get(base_currency, 1.0)
CurrencyAdj(base_currency) ==
    IF base_currency \in DOMAIN currency_volatility
    THEN Rat(currency_volatility[base_currency], 100)
    ELSE Num(1)

\* currency_multipliers: currency -> <<stop, profit>> in tenths
currency_multipliers ==
   [
    JPY |-> <<14, 22>>, EUR |-> <<12, 25>>, GBP |-> <<13, 23>>, USD |-> <<12, 24>>,
    CHF |-> <<13, 22>>, AUD |-> <<15, 21>>, NZD |-> <<15, 21>>, CAD |-> <<14, 22>>,
    SGD |-> <<13, 23>>, HKD |-> <<12, 24>>, NOK |-> <<14, 22>>, SEK |-> <<13, 23>>,
    DKK |-> <<12, 25>>, ZAR |-> <<15, 20>>, MXN |-> <<16, 19>>, TRY |-> <<17, 18>>,
    RUB |-> <<18, 17>>, INR |-> <<15, 20>>, BRL |-> <<16, 19>>, CNY |-> <<14, 22>>,
    KRW |-> <<13, 23>>, TWD |-> <<12, 24>>, MYR |-> <<15, 21>>, IDR |-> <<16, 19>>,
    THB |-> <<14, 22>>, PHP |-> <<15, 20>>, PLN |-> <<13, 23>>, HUF |-> <<14, 22>>,
    CZK |-> <<13, 23>>, ILS |-> <<12, 24>>, SAR |-> <<15, 21>>, AED |-> <<14, 22>>,
    QAR |-> <<13, 23>>, KWD |-> <<12, 24>>, BHD |-> <<13, 23>>, OMR |-> <<12, 24>>,
    JOD |-> <<13, 23>>, EGP |-> <<15, 20>>, NGN |-> <<16, 19>>, KES |-> <<15, 20>>,
    GHS |-> <<16, 19>>, TZS |-> <<15, 20>>, UGX |-> <<16, 19>>, ZMW |-> <<17, 18>>,
    MAD |-> <<15, 20>>, DZD |-> <<16, 19>>, TND |-> <<15, 20>>, LBP |-> <<17, 18>>,
    JMD |-> <<16, 19>>, TTD |-> <<15, 20>>, BBD |-> <<16, 19>>, BZD |-> <<15, 20>>,
    BMD |-> <<14, 22>>, BSD |-> <<14, 22>>, KYD |-> <<13, 23>>, XCD |-> <<14, 22>>,
    ANG |-> <<13, 23>>, AWG |-> <<13, 23>>, BIF |-> <<16, 19>>, CDF |-> <<17, 18>>,
    DJF |-> <<15, 20>>, ERN |-> <<16, 19>>, ETB |-> <<17, 18>>, GMD |-> <<16, 19>>,
    GNF |-> <<17, 18>>, LSL |-> <<16, 19>>, LRD |-> <<17, 18>>, MWK |-> <<16, 19>>,
    MRO |-> <<17, 18>>, MUR |-> <<16, 19>>, MZN |-> <<17, 18>>, NAD |-> <<16, 19>>,
    RWF |-> <<17, 18>>, SCR |-> <<16, 19>>, SLL |-> <<17, 18>>, SOS |-> <<16, 19>>,
    SSP |-> <<17, 18>>, SDG |-> <<16, 19>>, SZL |-> <<16, 19>>, TJS |-> <<17, 18>>,
    TMT |-> <<16, 19>>, UZS |-> <<17, 18>>, VND |-> <<16, 19>>, XAF |-> <<16, 19>>,
    XOF |-> <<16, 19>>, XPF |-> <<16, 19>>, YER |-> <<17, 18>>, ZWL |-> <<17, 18>>
   ]

\* Multipliers whose profit multiplier is below the break-even ratio.
Mult_below_break_even(base_currency) == <<10, 12>>

\* currency_multipliers.get(base_currency, {'stop': 1.3, 'profit': 2.3})
Mult(base_currency) ==
    IF base_currency \in DOMAIN currency_multipliers
    THEN currency_multipliers[base_currency]
    ELSE <<13, 23>>

\* np.sqrt(252) = 15.8745..., taken as the rational 127/8 = 15.875
Sqrt252 == <<127, 8>>


-----------------------------------------------------------------------------
(* ForexDataProcessor: position sizing.                                    *)

\* The three volatility bands of lines 192-200 and 371.
volatility_class(volatility) ==
    IF RLt(volatility, Rat(5, 1000)) THEN "Low"
    ELSE IF RLt(volatility, Rat(1, 100)) THEN "Medium"
    ELSE "High"

\* The distances of the superseded branch of lines 324-332, which knows no
\* currency.
superseded_distances(volatility, atr, daily_range, base_currency) ==
    IF RLt(volatility, Rat(5, 1000))
    THEN <<PyMax(RMul(atr, Rat(12, 10)), RMul(daily_range, Rat(1, 10))),
           RMul(PyMax(RMul(atr, Rat(12, 10)), RMul(daily_range, Rat(1, 10))),
                Rat(28, 10))>>
    ELSE IF RLt(volatility, Rat(1, 100))
    THEN <<PyMax(RMul(atr, Rat(15, 10)), RMul(daily_range, Rat(15, 100))),
           RMul(PyMax(RMul(atr, Rat(15, 10)), RMul(daily_range, Rat(15, 100))),
                Rat(23, 10))>>
    ELSE <<PyMax(RMul(atr, Num(2)), RMul(daily_range, Rat(2, 10))),
           RMul(PyMax(RMul(atr, Num(2)), RMul(daily_range, Rat(2, 10))),
                Rat(18, 10))>>

\* _calculate_dynamic_distances: <<stop_distance, profit_distance>>
_calculate_dynamic_distances(volatility, atr, daily_range, base_currency) ==
    LET mult == Mult(base_currency)
        stop == Rat(mult[1], 10)
        profit == Rat(mult[2], 10)
        stop_distance ==
            IF RLt(volatility, Rat(5, 1000))
            THEN PyMax(RMul(atr, stop), RMul(daily_range, Rat(1, 10)))
            ELSE IF RLt(volatility, Rat(1, 100))
            THEN PyMax(RMul(RMul(atr, stop), Rat(12, 10)),
                       RMul(daily_range, Rat(15, 100)))
            ELSE PyMax(RMul(RMul(atr, stop), Rat(14, 10)),
                       RMul(daily_range, Rat(2, 10)))
        profit_mult ==
            IF RLt(volatility, Rat(5, 1000)) THEN RMul(profit, Rat(11, 10))
            ELSE IF RLt(volatility, Rat(1, 100)) THEN profit
            ELSE RMul(profit, Rat(9, 10))
    IN  <<stop_distance, RMul(stop_distance, profit_mult)>>

\* The multiplier with the lowest band closed at 0.004.
volatility_adjustment_inclusive(volatility) ==
    IF RLt(Rat(15, 1000), volatility) THEN Rat(7, 10)
    ELSE IF RLt(Rat(8, 1000), volatility) THEN Rat(85, 100)
    ELSE IF RLe(volatility, Rat(4, 1000)) THEN Rat(12, 10)
    ELSE Num(1)

\* The volatility-regime multiplier of the position size (lines 300-306).
volatility_adjustment(volatility) ==
    IF RLt(Rat(15, 1000), volatility) THEN Rat(7, 10)
    ELSE IF RLt(Rat(8, 1000), volatility) THEN Rat(85, 100)
    ELSE IF RLt(volatility, Rat(4, 1000)) THEN Rat(12, 10)
    ELSE Num(1)

\* Lines 291-321: the position size.
adjusted_position(base_currency, volatility) ==
    RMul(RMul(Num(PositionConfig(base_currency)[1]),
              volatility_adjustment(volatility)),
         CurrencyAdj(base_currency))

\* Lines 341-374: entries, exits and risk metrics from the position size and
\* the distances dist = <<stop_distance, profit_distance>>.
risk_metrics(base_currency, current_price, volatility, pk, vk, position, dist) ==
    LET base_lot == Num(PositionConfig(base_currency)[1])
        stop_distance == dist[1]
        profit_distance == dist[2]
        entry_main == current_price
        risk_amount == RMul(stop_distance, position)
        \* atr, and with it a zero stop_distance, is a Python float only when
        \* both operands of volatility * current_price are
        rr_raises == stop_distance = Num(0) /\ pk = "py" /\ vk = "py"
        risk_reward_ratio ==
            IF stop_distance = Num(0) THEN NaN
            ELSE RDiv(profit_distance, stop_distance)
        expected_value ==
            FMul(FSub(FMul(risk_reward_ratio, Rat(45, 100)), Rat(55, 100)),
                 risk_amount)
        inv_raises == volatility = Num(0) /\ vk = "py"
        inv_volatility == IF volatility = Num(0) THEN Inf ELSE RInv(volatility)
        confidence_score ==
            PyMin(FAdd(FAdd(FAdd(FMul(risk_reward_ratio, Num(20)),
                                 FMul(inv_volatility, Num(30))),
                            RMul(RDiv(position, base_lot), Num(25))),
                       Num(25)),
                  Num(100))
    IN  IF rr_raises \/ inv_raises
        THEN [raised |-> "ZeroDivisionError"]
        ELSE [raised |-> "none",
              params |->
                [position_size |-> position,
                 entry_price |-> entry_main,
                 entry_scale_1 |-> RMul(current_price, Rat(9995, 10000)),
                 entry_scale_2 |-> RMul(current_price, Rat(9990, 10000)),
                 stop_loss |-> RSub(entry_main, stop_distance),
                 take_profit |-> RAdd(entry_main, profit_distance),
                 risk_reward |-> risk_reward_ratio,
                 confidence |-> confidence_score,
                 expected_return |-> expected_value,
                 risk_amount |-> risk_amount,
                 volatility_class |-> volatility_class(volatility),
                 position_adjustment |-> volatility_adjustment(volatility),
                 currency_adjustment |-> CurrencyAdj(base_currency)]]

\* _calculate_position_parameters(base_currency, current_price, volatility).
\* pk and vk are the kinds of current_price and volatility: "np" for a
\* numpy.float64 (what get_summary hands to load_market_data), "py" for a
\* Python float (the literal 0.0 of get_summary, and every value read from a
\* row of DataFrame.iterrows()).  The result is
\* [raised |-> "none", params |-> the returned dict] or
\* [raised |-> "ZeroDivisionError"].  There is no check of the arguments.
_calculate_position_parameters(base_currency, current_price, volatility, pk, vk) ==
    LET atr == RMul(volatility, current_price)
        daily_range == RMul(RMul(volatility, current_price), Sqrt252)
    IN  risk_metrics(base_currency, current_price, volatility, pk, vk,
                     adjusted_position(base_currency, volatility),
                     _calculate_dynamic_distances(volatility, atr, daily_range,
                                                  base_currency))

-----------------------------------------------------------------------------
(* ForexDataProcessor: signal strength and the ranking pass.               *)

\* A signal strength that depends on the time of the run.
_calculate_signal_strength_aged(summary, pos_params) == Num(50 + now)

\* _calculate_signal_strength (the second definition, which shadows the
\* first; the two are the same)
_calculate_signal_strength(summary, pos_params) ==
    LET trend_score ==
            IF summary.trend = "Bullish" /\ summary.macd_signal = "Buy"
            THEN Num(30)
            ELSE IF summary.trend = "Bearish" /\ summary.macd_signal = "Sell"
            THEN Num(30)
            ELSE Num(0)
        rsi_score ==
            IF summary.trend = "Bullish"
            THEN (IF FLt(summary.rsi, Num(30)) THEN Num(25)
                  ELSE IF FLt(summary.rsi, Num(45)) THEN Num(15)
                  ELSE Num(0))
            ELSE (IF FGt(summary.rsi, Num(70)) THEN Num(25)
                  ELSE IF FGt(summary.rsi, Num(55)) THEN Num(15)
                  ELSE Num(0))
        rr_score == PyMin(FMul(pos_params.risk_reward, Num(10)), Num(25))
        vol_score ==
            RMul(RSub(Num(1), RDiv(summary.volatility, Rat(2, 100))), Num(20))
    IN  FAdd(FAdd(FAdd(trend_score, rsi_score), rr_score),
             PyMax(PyMin(vol_score, Num(20)), Num(0)))

\* YahooCurrencyWrapper.get_summary(pair).  What the market-data provider
\* returns for the pair is the feed: "error" (the fetch raises), "empty" (no
\* bars: "No data available") or "bars" with the indicator values computed
\* from them.  Every failure leaves get_summary as an Exception.
get_summary(feed) ==
    IF feed.kind = "bars"
    THEN [raised |-> "none", summary |-> feed.summary]
    ELSE [raised |-> "Exception"]

\* The row appended to data_list (lines 61-79).
make_row(pair, summary, pos_params, t) ==
    [pair |-> pair,
     base_currency |-> pair[1],
     quote_currency |-> pair[2],
     current_rate |-> summary.current_rate,
     day_change |-> summary.day_change_pct,
     trend |-> summary.trend,
     rsi |-> summary.rsi,
     volatility |-> summary.volatility,
     macd_signal |-> summary.macd_signal,
     position_size |-> pos_params.position_size,
     entry_price |-> pos_params.entry_price,
     take_profit |-> pos_params.take_profit,
     stop_loss |-> pos_params.stop_loss,
     risk_reward |-> pos_params.risk_reward,
     expected_return |-> pos_params.expected_return,
     signal_strength |-> _calculate_signal_strength(summary, pos_params),
     timestamp |-> t]

\* Lines 54-79, sized being the outcome of _calculate_position_parameters.
row_of_sized(pair, summary, sized, t) ==
    IF sized.raised # "none" THEN [failed |-> TRUE]
    ELSE [failed |-> FALSE, row |-> make_row(pair, summary, sized.params, t)]

\* Lines 50-79, got being the outcome of get_summary: the position
\* parameters are computed from numpy's current_rate and the summary's
\* volatility.
row_of_summary(pair, got, t) ==
    IF got.raised # "none" THEN [failed |-> TRUE]
    ELSE row_of_sized(pair, got.summary,
                      _calculate_position_parameters(
                          pair[1], got.summary.current_rate,
                          got.summary.volatility, "np", got.summary.vk),
                      t)

\* One iteration of the loop of load_market_data (lines 47-81): the row
\* appended to data_list, or the failure caught by the except clause.
process_pair(pair, feed, t) == row_of_summary(pair, get_summary(feed), t)

\* The pair universe, sorted as get_available_pairs returns it; a pair is
\* <<base, quote>>, what pair.split('/') yields.
Universe ==
    << <<"EUR", "GBP">>, <<"EUR", "USD">>, <<"GBP", "USD">>, <<"RUB", "USD">>,
       <<"XXX", "USD">> >>

MaxPairs == 2

get_available_pairs == SubSeq(Universe, 1, MaxPairs)

RECURSIVE CollectRows(_, _)
\* data_list: the rows of the pairs i.. that did not fail, in pair order
CollectRows(results, i) ==
    IF i > Len(results) THEN <<>>
    ELSE IF results[i].failed THEN CollectRows(results, i + 1)
    ELSE <<results[i].row>> \o CollectRows(results, i + 1)

\* A pass without the try/except of lines 49-83: the first failure ends it.
pass_result_unguarded(results) ==
    [completed |-> \A i \in 1..Len(results) : ~results[i].failed,
     failed |-> [i \in 1..Len(results) |-> results[i].failed],
     data |-> IF \A i \in 1..Len(results) : ~results[i].failed
              THEN CollectRows(results, 1) ELSE <<>>]

\* What load_market_data returns once every pair has been processed.
pass_result(results) ==
    [completed |-> TRUE,
     failed |-> [i \in 1..Len(results) |-> results[i].failed],
     data |-> CollectRows(results, 1)]

\* load_market_data(): the pass over get_available_pairs(), feeds[i] being
\* what the provider returns for the i-th pair.  completed says that the
\* pass ran to its return statement; failed[i] that pair i was skipped.
load_market_data(feeds, t) ==
    pass_result([i \in 1..Len(get_available_pairs) |->
                    process_pair(get_available_pairs[i], feeds[i], t)])

-----------------------------------------------------------------------------
(* MarketOpportunityDashboard: scoring and ranking.                        *)

\* trading_config (lines 46-52)
rsi_oversold == Num(30)
rsi_overbought == Num(70)
max_volatility == Rat(2, 100)

\* lines 137-140
trend_term(row, trade_params) ==
    IF row.trend = "Bullish" /\ FGt(trade_params.expected_return, Num(0))
    THEN Num(30)
    ELSE IF row.trend = "Bearish" /\ FLt(trade_params.expected_return, Num(0))
    THEN Num(30)
    ELSE Num(0)

\* lines 143-146
rsi_term(row) ==
    IF row.trend = "Bullish" /\ FLt(row.rsi, rsi_oversold) THEN Num(20)
    ELSE IF row.trend = "Bearish" /\ FGt(row.rsi, rsi_overbought) THEN Num(20)
    ELSE Num(0)

\* line 149
rr_score(trade_params) == PyMin(FMul(trade_params.risk_reward, Num(10)), Num(25))

\* The volatility term without its floor at 0.
vol_term_unfloored(row) ==
    RMul(RSub(Num(1), RDiv(row.volatility, max_volatility)), Num(15))

\* lines 153-154: max(vol_score, 0)
vol_term(row) ==
    PyMax(RMul(RSub(Num(1), RDiv(row.volatility, max_volatility)), Num(15)),
          Num(0))

\* lines 156-157: min(momentum_score, 10)
momentum_term(row) == PyMin(RMul(FAbs(row.day_change), Num(2)), Num(10))

\* _calculate_opportunity_score(row, trade_params)
_calculate_opportunity_score(row, trade_params) ==
    PyMin(FAdd(FAdd(FAdd(FAdd(trend_term(row, trade_params), rsi_term(row)),
                         rr_score(trade_params)),
                    vol_term(row)),
               momentum_term(row)),
          Num(100))

\* Lines 98-104, sized being the outcome of _calculate_position_parameters:
\* the dict appended to opportunities, with the index label of the row.
record_of_sized(row, sized, i) ==
    IF sized.raised # "none" THEN [raised |-> sized.raised]
    ELSE [raised |-> "none",
          record |-> [name |-> i - 1,
                      opportunity_score |->
                          _calculate_opportunity_score(row, sized.params)]
                         @@ sized.params @@ row]

\* One iteration of the loop of analyze_opportunities (lines 90-104) on the
\* row at position i (index label i - 1).  Every value read from a row of
\* iterrows() is a Python float.
score_row(row, i) ==
    record_of_sized(row,
                    _calculate_position_parameters(
                        row.base_currency, row.current_rate, row.volatility,
                        "py", "py"),
                    i)

IsSortedDescending(df) ==
    \A i \in 1..(Len(df) - 1) :
        FGe(df[i].opportunity_score, df[i + 1].opportunity_score)

Orderings(n) ==
    {f \in [1..n -> 1..n] : \A i, j \in 1..n : f[i] = f[j] => i = j}

\* The sort of line 108 left out: the records stay in row order.
sort_values_omitted(df) == {df}

\* DataFrame(opportunities).sort_values('opportunity_score', ascending=False)
\* with the default kind='quicksort', which is not a stable sort: the rows
\* come out in non-increasing order of the score, rows of equal score in an
\* order the call does not determine.
sort_values(df) ==
    {ranked \in {[i \in 1..Len(df) |-> df[f[i]]] : f \in Orderings(Len(df))} :
        IsSortedDescending(ranked)}

\* The cache assigned before the last record has been appended.
ranked_outcomes_partial(scored, cache) ==
    IF \E i \in 1..Len(scored) : scored[i].raised # "none"
    THEN {[raised |-> "ZeroDivisionError", cache |-> cache]}
    ELSE {[raised |-> "none", cache |-> ranked] :
              ranked \in sort_values([i \in 1..(Len(scored) - 1) |->
                                         scored[i].record])}

\* Lines 89-108, scored being the outcomes of the loop's iterations: the
\* outcomes the call can have.  An exception of the loop is not caught.
ranked_outcomes(scored, cache) ==
    IF \E i \in 1..Len(scored) : scored[i].raised # "none"
    THEN {[raised |-> "ZeroDivisionError", cache |-> cache]}
    ELSE {[raised |-> "none", cache |-> ranked] :
              ranked \in sort_values([i \in 1..Len(scored) |-> scored[i].record])}

\* analyze_opportunities() as it would be without the early return of lines
\* 86-87: the frame built from no records replaces the cache.
analyze_opportunities_clearing(md, cache) ==
    IF md = <<>> THEN {[raised |-> "none", cache |-> <<>>]}
    ELSE ranked_outcomes([i \in 1..Len(md) |-> score_row(md[i], i)], cache)

\* analyze_opportunities() on market data md with the cache holding cache.
analyze_opportunities(md, cache) ==
    IF md = <<>> THEN {[raised |-> "none", cache |-> cache]}
    ELSE ranked_outcomes([i \in 1..Len(md) |-> score_row(md[i], i)], cache)

-----------------------------------------------------------------------------
(* MarketOpportunityDashboard: presentation.                               *)

\* DataFrame.head(n): the first n rows, or all of them when there are fewer.
head(df, n) == SubSeq(df, 1, IF Len(df) < n THEN Len(df) ELSE n)

\* The medal create_footer puts in front of a trade: chosen by trade.name, the
\* index label the row was given when the records were collected, which
\* sort_values carries along unchanged.
medal_of(name) ==
    IF name = 0 THEN "gold" ELSE IF name = 1 THEN "silver" ELSE "bronze"

\* create_footer(): one recommendation per row of opportunity_cache.head(3),
\* in the order of the cache.
create_footer(cache) ==
    IF cache # <<>>
    THEN [i \in 1..Len(head(cache, 3)) |->
            [medal |-> medal_of(head(cache, 3)[i].name),
             side |-> IF head(cache, 3)[i].trend = "Bullish" THEN "Buy" ELSE "Sell",
             pair |-> head(cache, 3)[i].pair]]
    ELSE "No trading opportunities available"

\* generate_layout(): what create_header, generate_market_overview_table and
\* create_footer read from the dashboard.
generate_layout(cache) ==
    [header |-> IF cache # <<>> THEN Len(cache) ELSE "No market data available",
     table |-> cache,
     footer |-> create_footer(cache)]

-----------------------------------------------------------------------------
(* Inputs.                                                                 *)

\* Base currencies: majors, one code known only to currency_multipliers
\* (RUB) and one unknown code (XXX).
Currencies == {"EUR", "GBP", "JPY", "AUD", "RUB", "XXX"}

ValidPrices == {Rat(11, 10), Rat(65, 100), Rat(3, 2)}
InvalidPrices == {Num(0), Rat(-11, 10)}

PositiveVols ==
    {Rat(3, 1000), Rat(4, 1000), Rat(5, 1000), Rat(6, 1000), Rat(8, 1000),
     Rat(9, 1000), Rat(10, 1000), Rat(12, 1000), Rat(15, 1000), Rat(20, 1000),
     Rat(30, 1000), Rat(60, 1000)}
ValidVols == {Num(0)} \cup PositiveVols
InvalidVols == {Rat(-1, 100)}

Kinds == {<<"np", "np">>, <<"np", "py">>, <<"py", "py">>}

\* What the provider can return for a pair.
OneBar ==       \* a single bar: volatility is the literal 0.0
    [current_rate |-> Rat(11, 10), day_change_pct |-> Num(0), rsi |-> Num(50),
     trend |-> "Bearish", macd_signal |-> "Sell", volatility |-> Num(0),
     vk |-> "py"]
Flat ==         \* a constant series: the standard deviation is numpy's 0.0
    [current_rate |-> Rat(11, 10), day_change_pct |-> Num(0), rsi |-> Num(50),
     trend |-> "Bearish", macd_signal |-> "Sell", volatility |-> Num(0),
     vk |-> "np"]
Rising ==
    [current_rate |-> Rat(11, 10), day_change_pct |-> Num(1), rsi |-> Num(25),
     trend |-> "Bullish", macd_signal |-> "Buy", volatility |-> Rat(3, 1000),
     vk |-> "np"]
Falling ==
    [current_rate |-> Rat(65, 100), day_change_pct |-> Num(-1), rsi |-> Num(60),
     trend |-> "Bearish", macd_signal |-> "Sell", volatility |-> Rat(60, 1000),
     vk |-> "np"]

Feeds ==
    {[kind |-> "error"], [kind |-> "empty"]}
        \cup {[kind |-> "bars", summary |-> x] :
                  x \in {OneBar, Flat, Rising, Falling}}

FeedChoices == [1..MaxPairs -> Feeds]

\* The --update-interval and --min-risk-reward options given on the command
\* line (cli.py, defaults 60 and 1.5).
UpdateIntervalArgs == {60}
MinRiskRewardArgs == {Rat(15, 10), Num(3)}

\* Seconds of run_dashboard that are explored.
MaxClock == 31

NoCall == [op |-> "none"]

\* Nothing rendered yet, no pass run yet, last_update = None.
NotRendered == [rendered |-> FALSE]
NoPass == [by |-> "none"]
NeverUpdated == [value |-> "None"]

Init ==
    /\ pc = "start"
    /\ market_data = <<>>
    /\ opportunity_cache = <<>>
    /\ last_update = NeverUpdated
    /\ update_interval = 60
    /\ min_risk_reward = Rat(15, 10)
    /\ update_counter = 0
    /\ now = 0
    /\ displayed = NotRendered
    /\ pass = NoPass
    /\ analysed = <<>>
    /\ call = NoCall
    /\ runs = {}

-----------------------------------------------------------------------------
(* The program: main(), the constructor and run_dashboard.                 *)

\* random.randint(a, b)
randint(a, b) == a..b

\* update_counter >= random.randint(30, 90), for some draw
refresh_due(counter) == \E r \in randint(30, 90) : counter >= r
refresh_not_due(counter) == ~ \A r \in randint(30, 90) : counter >= r

\* MarketOpportunityDashboard() in main(): __init__ runs
\* initialize_dashboard(); an exception leaves main() through its handler,
\* which prints the error and exits.
initialize_dashboard ==
    /\ pc = "start"
    /\ \E feeds \in FeedChoices :
         \E loaded \in {load_market_data(feeds, now)} :
             /\ market_data' = loaded.data
             /\ pass' = [by |-> "initialize_dashboard",
                         completed |-> loaded.completed,
                         failed |-> loaded.failed]
             /\ \E out \in analyze_opportunities(loaded.data, opportunity_cache) :
                  /\ opportunity_cache' = out.cache
                  /\ IF out.raised = "none"
                     THEN /\ last_update' = [value |-> "datetime", at |-> now]
                          /\ pc' = "constructed"
                          /\ analysed' = IF loaded.data = <<>> THEN analysed
                                         ELSE loaded.data
                     ELSE /\ last_update' = last_update
                          /\ pc' = "exited"
                          /\ analysed' = analysed
    /\ UNCHANGED <<update_interval, min_risk_reward, update_counter, now,
                   displayed, call, runs>>

\* main(), lines 39-40: the options are stored after the constructor returned.
configure ==
    /\ pc = "constructed"
    /\ \E n \in UpdateIntervalArgs : update_interval' = n
    /\ \E m \in MinRiskRewardArgs : min_risk_reward' = m
    /\ pc' = "configured"
    /\ UNCHANGED <<market_data, opportunity_cache, last_update, update_counter,
                   now, displayed, pass, analysed, call, runs>>

\* run_dashboard(), lines 393-394: Live(self.generate_layout()), counter 0.
live_start ==
    /\ pc = "configured"
    /\ displayed' = [rendered |-> TRUE,
                     layout |-> generate_layout(opportunity_cache)]
    /\ update_counter' = 0
    /\ pc' = "check"
    /\ UNCHANGED <<market_data, opportunity_cache, last_update, update_interval,
                   min_risk_reward, now, pass, analysed, call, runs>>

\* Lines 396-398: refresh_data() and the reset of the counter.
refresh_data ==
    /\ pc = "check"
    /\ refresh_due(update_counter)
    /\ \E feeds \in FeedChoices :
         \E loaded \in {load_market_data(feeds, now)} :
             /\ market_data' = loaded.data
             /\ pass' = [by |-> "refresh_data",
                         completed |-> loaded.completed,
                         failed |-> loaded.failed]
    /\ update_counter' = 0
    /\ pc' = "update"
    /\ UNCHANGED <<opportunity_cache, last_update, update_interval,
                   min_risk_reward, now, displayed, analysed, call, runs>>

\* Line 396, the condition false: the iteration does not refresh.
no_refresh ==
    /\ pc = "check"
    /\ refresh_not_due(update_counter)
    /\ pc' = "update"
    /\ UNCHANGED <<market_data, opportunity_cache, last_update, update_interval,
                   min_risk_reward, update_counter, now, displayed, pass,
                   analysed, call, runs>>

\* live.update(self.generate_layout())
live_update ==
    /\ pc = "update"
    /\ displayed' = [rendered |-> TRUE,
                     layout |-> generate_layout(opportunity_cache)]
    /\ pc' = "sleep"
    /\ UNCHANGED <<market_data, opportunity_cache, last_update, update_interval,
                   min_risk_reward, update_counter, now, pass, analysed, call,
                   runs>>

\* time.sleep(1); update_counter += 1
sleep ==
    /\ pc = "sleep"
    /\ now < MaxClock
    /\ now' = now + 1
    /\ update_counter' = update_counter + 1
    /\ pc' = "check"
    /\ UNCHANGED <<market_data, opportunity_cache, last_update, update_interval,
                   min_risk_reward, displayed, pass, analysed, call, runs>>

Next ==
    \/ initialize_dashboard
    \/ configure
    \/ live_start
    \/ refresh_data
    \/ no_refresh
    \/ live_update
    \/ sleep

Spec == Init /\ [][Next]_vars

-----------------------------------------------------------------------------
(* Direct calls of the position sizer.                                     *)

\* _calculate_position_parameters called with any arguments.
SizerCall ==
    /\ pc = "start"
    /\ \E base \in Currencies,
          price \in ValidPrices \cup InvalidPrices,
          vol \in ValidVols \cup InvalidVols,
          k \in Kinds :
          call' = [op |-> "_calculate_position_parameters",
                   base_currency |-> base, current_price |-> price,
                   volatility |-> vol, pk |-> k[1], vk |-> k[2],
                   result |-> _calculate_position_parameters(
                                  base, price, vol, k[1], k[2])]
    /\ pc' = "called"
    /\ UNCHANGED <<market_data, opportunity_cache, last_update,
                   update_interval, min_risk_reward, update_counter, now,
                   displayed, pass, analysed, runs>>

SizerNext == SizerCall

SizerSpec == Init /\ [][SizerNext]_vars

-----------------------------------------------------------------------------
(* Direct calls of the scorer on the parameters the sizer produces.        *)

Trends == {"Bullish", "Bearish"}
RsiValues == {Num(0), Num(25), Num(50), Num(75), Num(100)}
DayChanges == {Num(-6), Num(-1), Num(0), Num(1), Num(6)}

\* The outcome of scoring a row with the outcome of the sizer for it.
score_of_sized(row, sized) ==
    IF sized.raised # "none" THEN [raised |-> sized.raised]
    ELSE [raised |-> "none", trade_params |-> sized.params,
          score |-> _calculate_opportunity_score(row, sized.params)]

\* _calculate_opportunity_score(row, trade_params) with trade_params the
\* result of _calculate_position_parameters for the row.
ScoreCall ==
    /\ pc = "start"
    /\ \E t \in Trends, r \in RsiValues, vol \in ValidVols, d \in DayChanges,
          base \in Currencies, k \in Kinds :
          \E row \in {[base_currency |-> base, current_rate |-> Rat(11, 10),
                       trend |-> t, rsi |-> r, volatility |-> vol,
                       day_change |-> d]} :
              call' = [op |-> "_calculate_opportunity_score", row |-> row,
                       pk |-> k[1], vk |-> k[2],
                       result |-> score_of_sized(
                                      row,
                                      _calculate_position_parameters(
                                          base, row.current_rate, vol,
                                          k[1], k[2]))]
    /\ pc' = "called"
    /\ UNCHANGED <<market_data, opportunity_cache, last_update,
                   update_interval, min_risk_reward, update_counter, now,
                   displayed, pass, analysed, runs>>

ScoreNext == ScoreCall

ScoreSpec == Init /\ [][ScoreNext]_vars

-----------------------------------------------------------------------------
(* The per-pair pipeline run repeatedly, at different times.               *)

MaxRuns == 2
MaxTicks == 2

\* summary -> position parameters -> row (load_market_data), then position
\* parameters -> score -> record (analyze_opportunities), for one pair.
pipeline_of(processed) ==
    IF processed.failed THEN [raised |-> "skipped"]
    ELSE score_row(processed.row, 1)

score_single_pair(pair, feed, t) == pipeline_of(process_pair(pair, feed, t))

run_pipeline ==
    /\ pc = "start"
    /\ Cardinality(runs) < MaxRuns
    /\ \E i \in 1..Len(get_available_pairs), feed \in Feeds :
          runs' = runs \cup
                    {[pair |-> get_available_pairs[i], feed |-> feed,
                      at |-> now,
                      out |-> score_single_pair(get_available_pairs[i],
                                                feed, now)]}
    /\ UNCHANGED <<pc, market_data, opportunity_cache, last_update,
                   update_interval, min_risk_reward, update_counter, now,
                   displayed, pass, analysed, call>>

\* Time passes between two runs.
tick ==
    /\ pc = "start"
    /\ now < MaxTicks
    /\ now' = now + 1
    /\ UNCHANGED <<pc, market_data, opportunity_cache, last_update,
                   update_interval, min_risk_reward, update_counter,
                   displayed, pass, analysed, call, runs>>

PipelineNext ==
    \/ run_pipeline
    \/ tick

PipelineSpec == Init /\ [][PipelineNext]_vars

-----------------------------------------------------------------------------
(* YahooCurrencyWrapper.get_summary: the indicators of a series of closes.  *)

\* The windows of the rolling means (lines 58-59, 63, 64).
rsi_window == 14
sma_20_window == 20
sma_50_window == 50

RECURSIVE SeqSum(_, _, _)
\* s[i] + ... + s[j]
SeqSum(s, i, j) == IF i > j THEN 0 ELSE s[i] + SeqSum(s, i + 1, j)

\* Series.rolling(window).mean().iloc[-1]: nan while fewer than window
\* values are there (min_periods defaults to the window).
rolling_mean_last(s, window) ==
    IF Len(s) < window THEN NaN
    ELSE Rat(SeqSum(s, Len(s) - window + 1, Len(s)), window)

\* delta.where(delta > 0, 0): the first delta is nan, nan > 0 is False, so
\* the first entry is 0 like every entry that is not a gain.
gain_series(closes) ==
    [i \in 1..Len(closes) |->
        IF i > 1 /\ closes[i] > closes[i - 1] THEN closes[i] - closes[i - 1]
        ELSE 0]

\* -delta.where(delta < 0, 0)
loss_series(closes) ==
    [i \in 1..Len(closes) |->
        IF i > 1 /\ closes[i] < closes[i - 1] THEN closes[i - 1] - closes[i]
        ELSE 0]

\* No default for an undefined value.
fillna_omitted(x) == x

\* (100 / (1 + rs)).fillna(50)
fillna_50(x) == IF IsNaN(x) THEN Num(50) ELSE x

\* Lines 57-61 and 78 for the averages gain and loss of the last window:
\* rs = gain / loss, rsi = 100 - (100 / (1 + rs)).fillna(50), and 50.0 if
\* that is nan.
rsi_of(gain, loss) ==
    fillna_50(FSub(Num(100),
                   fillna_50(FDiv(Num(100), FAdd(Num(1), FDiv(gain, loss))))))

rsi_value(closes) ==
    rsi_of(rolling_mean_last(gain_series(closes), rsi_window),
           rolling_mean_last(loss_series(closes), rsi_window))

\* Line 89: 'Bullish' if sma_20.iloc[-1] > sma_50.iloc[-1] else 'Bearish'
trend_of(sma_20, sma_50) == IF FGt(sma_20, sma_50) THEN "Bullish" ELSE "Bearish"

trend_value(closes) ==
    trend_of(rolling_mean_last(closes, sma_20_window),
             rolling_mean_last(closes, sma_50_window))

\* Lines 53-55: prev_price is the close before the last, or the last close
\* of a one-bar series.
day_change_pct(closes) ==
    LET current_price == Num(closes[Len(closes)])
        prev_price == IF Len(closes) > 1 THEN Num(closes[Len(closes) - 1])
                      ELSE Num(closes[Len(closes)])
    IN  RMul(RSub(RDiv(current_price, prev_price), Num(1)), Num(100))

\* The volatility without the fallback to 0.0: nan for fewer than two
\* returns.
volatility_value_unguarded(closes) ==
    [is_zero |-> /\ Len(closes) > 2
                 /\ \A i \in 3..Len(closes) :
                        closes[i] * closes[1] = closes[i - 1] * closes[2],
     vk |-> "np"]

\* Lines 71-77: returns = pct_change().dropna(); volatility is the literal
\* 0.0 with no return, and again 0.0 when std() is nan (a single return);
\* else returns.std() * sqrt(252), a numpy float, which is 0.0 exactly when
\* all returns are equal.  A positive standard deviation is not evaluated.
volatility_value(closes) ==
    IF Len(closes) <= 2 THEN [is_zero |-> TRUE, vk |-> "py"]
    ELSE [is_zero |-> \A i \in 3..Len(closes) :
                         closes[i] * closes[1] = closes[i - 1] * closes[2],
          vk |-> "np"]

\* get_summary on the bars the provider returned: the empty frame raises
\* "No data available"; else the summary dict (the entries computed from
\* the closes by the rolling means and the returns).
summary_of_closes(closes) ==
    IF closes = <<>> THEN [raised |-> "Exception"]
    ELSE [raised |-> "none",
          summary |-> [current_rate |-> Num(closes[Len(closes)]),
                       day_change_pct |-> day_change_pct(closes),
                       rsi |-> rsi_value(closes),
                       trend |-> trend_value(closes),
                       volatility |-> volatility_value(closes)]]

\* Series of closes of n bars.
MaxBars == 52
Shapes == {"flat", "rising", "falling", "sawtooth", "slump"}
Series(shape, n) ==
    [i \in 1..n |->
        CASE shape = "flat" -> 100
          [] shape = "rising" -> 100 + i
          [] shape = "falling" -> 200 - i
          [] shape = "sawtooth" -> 100 + i + 2 * (i % 2)
          [] shape = "slump" -> 200 - i - 2 * (i % 2)]

\* get_summary(pair) on a series.
SummaryCall ==
    /\ pc = "start"
    /\ \E shape \in Shapes, n \in 0..MaxBars :
          \E closes \in {Series(shape, n)} :
              call' = [op |-> "get_summary", shape |-> shape,
                       closes |-> closes,
                       result |-> summary_of_closes(closes)]
    /\ pc' = "called"
    /\ UNCHANGED <<market_data, opportunity_cache, last_update,
                   update_interval, min_risk_reward, update_counter, now,
                   displayed, pass, analysed, runs>>

SummaryNext == SummaryCall

SummarySpec == Init /\ [][SummaryNext]_vars

-----------------------------------------------------------------------------
(* ForexDataProcessor.get_top_opportunities.                               *)

\* self.market_data[self.market_data['risk_reward'] >= min_risk_reward]; a
\* comparison with nan is False.
filter_risk_reward(df, min_rr) ==
    SelectSeq(df, LAMBDA r : FGe(r.risk_reward, min_rr))

IsSortedBySignal(df) ==
    \A i \in 1..(Len(df) - 1) :
        FGe(df[i].signal_strength, df[i + 1].signal_strength)

\* .sort_values('signal_strength', ascending=False), again with the default
\* kind: any non-increasing order of the rows.
sort_by_signal_strength(df) ==
    {ranked \in {[i \in 1..Len(df) |-> df[f[i]]] : f \in Orderings(Len(df))} :
        IsSortedBySignal(ranked)}

\* get_top_opportunities(min_risk_reward) on a processor whose attribute
\* market_data holds attr, loaded being what load_market_data returns when
\* it is called (lines 378-379).  The return value of load_market_data is
\* dropped, and load_market_data assigns no attribute: attr is what is
\* indexed, and ['risk_reward'] on the empty frame of __init__ raises
\* KeyError.  The outcomes, each with the attribute after the call.
get_top_opportunities(attr, loaded, min_rr) ==
    IF attr = <<>>
    THEN {[raised |-> "KeyError", market_data |-> attr]}
    ELSE {[raised |-> "none", opportunities |-> ranked, market_data |-> attr] :
              ranked \in sort_by_signal_strength(
                             filter_risk_reward(attr, min_rr))}

\* processor.get_top_opportunities(m) on a fresh processor (market_data the
\* empty frame of __init__), or on one whose caller has assigned
\* processor.market_data = processor.load_market_data() before.
TopCall ==
    /\ pc = "start"
    /\ \E feeds \in FeedChoices, m \in MinRiskRewardArgs, assigned \in BOOLEAN :
         \E loaded \in {load_market_data(feeds, now).data} :
           \E attr \in {IF assigned THEN loaded ELSE <<>>} :
             \E out \in get_top_opportunities(attr, loaded, m) :
                 call' = [op |-> "get_top_opportunities",
                          min_risk_reward |-> m,
                          before |-> attr,
                          loaded |-> loaded,
                          result |-> out]
    /\ pc' = "called"
    /\ UNCHANGED <<market_data, opportunity_cache, last_update,
                   update_interval, min_risk_reward, update_counter, now,
                   displayed, pass, analysed, runs>>

\* The call is made at any time.
TopNext ==
    \/ TopCall
    \/ tick

TopSpec == Init /\ [][TopNext]_vars

-----------------------------------------------------------------------------
(* The running dashboard with calls of analyze_opportunities().            *)

\* analyze_opportunities() called on the dashboard between two iterations of
\* the loop of run_dashboard, on whatever market_data and opportunity_cache
\* hold then.  An exception leaves the program.
reanalyze ==
    /\ pc = "check"
    /\ \E out \in analyze_opportunities(market_data, opportunity_cache) :
         /\ opportunity_cache' = out.cache
         /\ pc' = IF out.raised = "none" THEN "check" ELSE "exited"
         /\ analysed' = IF out.raised = "none" /\ market_data # <<>>
                        THEN market_data ELSE analysed
         /\ call' = [op |-> "analyze_opportunities",
                     empty |-> market_data = <<>>,
                     raised |-> out.raised]
    /\ UNCHANGED <<market_data, last_update, update_interval, min_risk_reward,
                   update_counter, now, displayed, pass, runs>>

ReanalysisNext ==
    \/ initialize_dashboard
    \/ configure
    \/ live_start
    \/ refresh_data
    \/ no_refresh
    \/ live_update
    \/ sleep
    \/ reanalyze

ReanalysisSpec == Init /\ [][ReanalysisNext]_vars

-----------------------------------------------------------------------------
(* Properties.                                                             *)

\* The rows of md and the records of ranked correspond one to one: every
\* record carries the index label of a row of md and that row's pair and
\* timestamp, and every row has exactly one record.
OneRecordPerRow(ranked, md) ==
    /\ Len(ranked) = Len(md)
    /\ \A i \in 1..Len(ranked) :
           /\ ranked[i].name \in 0..(Len(md) - 1)
           /\ ranked[i].pair = md[ranked[i].name + 1].pair
           /\ ranked[i].timestamp = md[ranked[i].name + 1].timestamp
    /\ \A i, j \in 1..Len(ranked) : ranked[i].name = ranked[j].name => i = j

NonIncreasing(ranked) ==
    \A i \in 1..(Len(ranked) - 1) :
        FLe(ranked[i + 1].opportunity_score, ranked[i].opportunity_score)

\* C1: for every market row with trend Bullish or Bearish, rsi in [0,100],
\* volatility >= 0 and any day_change, and the trade parameters that
\* _calculate_position_parameters returns for it, the score that
\* _calculate_opportunity_score returns lies in [0,100].
C1_ScoreInRange ==
    (call.op = "_calculate_opportunity_score" /\ call.result.raised = "none")
        => /\ FLe(Num(0), call.result.score)
           /\ FLe(call.result.score, Num(100))

\* C2: whenever analyze_opportunities has completed on non-empty market data,
\* every record of opportunity_cache has a score >= the score of the record
\* after it.
C2_CacheSortedDescending ==
    analysed # <<>> =>
        \A i \in 1..(Len(opportunity_cache) - 1) :
            RLe(opportunity_cache[i + 1].opportunity_score,
                opportunity_cache[i].opportunity_score)

\* C2 witness: an analysis has ranked two rows in the reverse of their
\* order in market_data, the second row scoring strictly higher.
C2_Witness ==
    /\ Len(analysed) = 2
    /\ Len(opportunity_cache) = 2
    /\ opportunity_cache[1].name = 1
    /\ opportunity_cache[2].name = 0
    /\ RLt(opportunity_cache[2].opportunity_score,
           opportunity_cache[1].opportunity_score)

\* C3: a pass of load_market_data always runs to completion, whatever pairs
\* fail in it, and its output holds exactly one row for every pair that did
\* not fail, in pair order, and no row for a pair that failed.
C3_PassIsolatesFailures ==
    pass.by # "none" =>
        /\ pass.completed
        /\ Len(market_data) =
               Cardinality({i \in 1..Len(get_available_pairs) : ~pass.failed[i]})
        /\ \A i \in 1..Len(get_available_pairs) :
               pass.failed[i] <=>
                   ~ \E k \in 1..Len(market_data) :
                         market_data[k].pair = get_available_pairs[i]
        /\ \A k, l \in 1..Len(market_data) :
               market_data[k].pair = market_data[l].pair => k = l

\* C3 witness: the first pair of a pass failed and the pass went on to
\* produce the row of the second pair.
C3_Witness ==
    /\ pass.by # "none"
    /\ pass.completed
    /\ pass.failed[1]
    /\ ~pass.failed[2]
    /\ Len(market_data) = 1
    /\ market_data[1].pair = get_available_pairs[2]

\* C4: once run_dashboard has refreshed and rendered, the ranked list shown
\* is the complete set of records of the market data that the refresh
\* loaded, and holds no record of an earlier cycle.
C4_CacheReplacedOnRefresh ==
    (pc = "sleep" /\ pass.by = "refresh_data")
        => OneRecordPerRow(displayed.layout.table, market_data)

\* C5: every record of the ranked list handed to the presentation has
\* risk_reward >= trading_config['min_risk_reward'].
C5_MinRiskRewardFilter ==
    (pc \in {"check", "update", "sleep"} /\ displayed.rendered)
        => \A i \in 1..Len(displayed.layout.table) :
               FGe(displayed.layout.table[i].risk_reward, min_risk_reward)

\* C6: at every point of the run, opportunity_cache and the list that
\* generate_layout last read from it are a complete ranked list of one
\* analysis: one record for every row that analysis ranked, in
\* non-increasing order of the score (or the empty list before any
\* analysis); never a partially populated or unsorted list.
C6_ReadersSeeCompleteList ==
    /\ OneRecordPerRow(opportunity_cache, analysed)
    /\ NonIncreasing(opportunity_cache)
    /\ displayed.rendered =>
           /\ OneRecordPerRow(displayed.layout.table, analysed)
           /\ NonIncreasing(displayed.layout.table)

\* C6 witness: the presentation has rendered a two-record list after a
\* refresh had replaced market_data.
C6_Witness ==
    /\ pc = "sleep"
    /\ pass.by = "refresh_data"
    /\ displayed.rendered
    /\ Len(displayed.layout.table) = 2
    /\ displayed.layout.table = opportunity_cache

\* C7: every call of _calculate_position_parameters with current_price > 0
\* and volatility >= 0 that returns has stop_loss < entry_price <
\* take_profit and risk_reward = (take_profit - entry_price) /
\* (entry_price - stop_loss).
C7_LevelsOrdered ==
    (/\ call.op = "_calculate_position_parameters"
     /\ FGt(call.current_price, Num(0))
     /\ FGe(call.volatility, Num(0))
     /\ call.result.raised = "none")
        => /\ FLt(call.result.params.stop_loss, call.result.params.entry_price)
           /\ FLt(call.result.params.entry_price,
                  call.result.params.take_profit)
           /\ call.result.params.risk_reward =
                  RDiv(RSub(call.result.params.take_profit,
                            call.result.params.entry_price),
                       RSub(call.result.params.entry_price,
                            call.result.params.stop_loss))

\* C8: every call of _calculate_position_parameters with current_price <= 0
\* or volatility < 0 ends in an error and returns no parameters.
C8_InvalidInputRejected ==
    (/\ call.op = "_calculate_position_parameters"
     /\ \/ FLe(call.current_price, Num(0))
        \/ FLt(call.volatility, Num(0)))
        => call.result.raised # "none"

\* The outcome of a run of the pipeline without the time of the run.
SansTimestamp(out) ==
    IF out.raised # "none" THEN out
    ELSE [raised |-> "none", record |-> [out.record EXCEPT !.timestamp = 0]]

C10_TiesKeepRowOrder ==
    \A i, j \in 1..Len(opportunity_cache) :
        (/\ i < j
         /\ opportunity_cache[i].opportunity_score =
                opportunity_cache[j].opportunity_score)
            => opportunity_cache[i].name < opportunity_cache[j].name

\* The scenario call: base currency EUR, current_price 1.1000, volatility
\* 0.004, which returned.
IsScenarioCall ==
    /\ call.op = "_calculate_position_parameters"
    /\ call.base_currency = "EUR"
    /\ call.current_price = Rat(11, 10)
    /\ call.volatility = Rat(4, 1000)
    /\ call.result.raised = "none"

\* C11 as stated: for EUR, price 1.1000 and volatility 0.004 the sizer
\* returns position_size 120000, volatility_class Low and risk_reward 2.75.
C11_ScenarioAsStated ==
    IsScenarioCall =>
        /\ call.result.params.position_size = Num(120000)
        /\ call.result.params.volatility_class = "Low"
        /\ call.result.params.risk_reward = Rat(275, 100)

\* C11: for EUR, price 1.1000 and volatility 0.004 the sizer returns
\* position_size 100000 (volatility multiplier 1.0, since 0.004 is not below
\* 0.004), volatility_class Low and risk_reward 2.75.
C11_ScenarioPositionSize ==
    IsScenarioCall =>
        /\ call.result.params.position_size = Num(100000)
        /\ call.result.params.position_adjustment = Num(1)
        /\ call.result.params.volatility_class = "Low"
        /\ call.result.params.risk_reward = Rat(275, 100)

\* C11 witness: the scenario call has been made and has returned.
C11_Witness == IsScenarioCall /\ call.pk = "py" /\ call.vk = "py"

\* The five terms of the score as section 4.4 of the specification states
\* them, for a row and the trade parameters tp.
StatedT(row, tp) ==
    IF \/ row.trend = "Bullish" /\ FGt(tp.expected_return, Num(0))
       \/ row.trend = "Bearish" /\ FLt(tp.expected_return, Num(0))
    THEN Num(30) ELSE Num(0)
StatedR(row) ==
    IF \/ row.trend = "Bullish" /\ FLt(row.rsi, Num(30))
       \/ row.trend = "Bearish" /\ FGt(row.rsi, Num(70))
    THEN Num(20) ELSE Num(0)
StatedRR(tp) == PyMin(FMul(tp.risk_reward, Num(10)), Num(25))
StatedV(row) ==
    PyMax(FMul(FSub(Num(1), RDiv(row.volatility, Rat(2, 100))), Num(15)),
          Num(0))
StatedM(row) == PyMin(FMul(FAbs(row.day_change), Num(2)), Num(10))
StatedScore(row, tp) ==
    PyMin(FAdd(FAdd(FAdd(FAdd(StatedT(row, tp), StatedR(row)), StatedRR(tp)),
                    StatedV(row)),
               StatedM(row)),
          Num(100))

\* C12: the score of every scored row equals min(T + R + RR + V + M, 100)
\* with T 30 or 0 by trend/return alignment, R 20 or 0 by the rsi
\* confirmation, RR = min(risk_reward x 10, 25), V = max((1 - volatility /
\* 0.02) x 15, 0) and M = min(|day_change| x 2, 10); V lies in [0,15], M in
\* [0,10], and RR is at most 25 whenever risk_reward is a number.
C12_ScoreIsSumOfCappedTerms ==
    (call.op = "_calculate_opportunity_score" /\ call.result.raised = "none")
        => /\ call.result.score =
                  StatedScore(call.row, call.result.trade_params)
           /\ FLe(Num(0), StatedV(call.row))
           /\ FLe(StatedV(call.row), Num(15))
           /\ FLe(Num(0), StatedM(call.row))
           /\ FLe(StatedM(call.row), Num(10))
           /\ ~IsNaN(call.result.trade_params.risk_reward)
                  => FLe(StatedRR(call.result.trade_params), Num(25))

\* C12 witness: the row Bullish, rsi 25, volatility 0.003, day_change 1.0
\* with a positive expected_return and risk_reward >= 2.5 has scored 89.75.
C12_Witness ==
    /\ call.op = "_calculate_opportunity_score"
    /\ call.result.raised = "none"
    /\ call.row.trend = "Bullish"
    /\ call.row.rsi = Num(25)
    /\ call.row.volatility = Rat(3, 1000)
    /\ call.row.day_change = Num(1)
    /\ FGt(call.result.trade_params.expected_return, Num(0))
    /\ FGe(call.result.trade_params.risk_reward, Rat(25, 10))
    /\ call.result.score = Rat(8975, 100)

RECURSIVE UpMoves(_, _, _)
\* The sum of the rises closes[k] - closes[k-1] > 0 for k in i..j, k >= 2.
UpMoves(closes, i, j) ==
    IF i > j THEN 0
    ELSE (IF i >= 2 /\ closes[i] > closes[i - 1]
          THEN closes[i] - closes[i - 1] ELSE 0) + UpMoves(closes, i + 1, j)

RECURSIVE DownMoves(_, _, _)
\* The sum of the falls closes[k-1] - closes[k] > 0 for k in i..j, k >= 2.
DownMoves(closes, i, j) ==
    IF i > j THEN 0
    ELSE (IF i >= 2 /\ closes[i] < closes[i - 1]
          THEN closes[i - 1] - closes[i] ELSE 0) + DownMoves(closes, i + 1, j)

\* 100 - 100 / (1 + g/l) for sums g >= 0 and l > 0 of a window.
WilderRsi(g, l) ==
    RSub(Num(100), RDiv(Num(100), RAdd(Num(1), Rat(g, l))))

IsSummaryOfBars ==
    /\ call.op = "get_summary"
    /\ call.result.raised = "none"

AvailableMean(closes, window) ==
    \* the bars that are there, at most window of them
    IF Len(closes) < window
    THEN Rat(SeqSum(closes, 1, Len(closes)), Len(closes))
    ELSE Rat(SeqSum(closes, Len(closes) - window + 1, Len(closes)), window)

\* C14: the trend of a summary is Bullish exactly when the SMA20 of the
\* closes is above their SMA50, each average being taken over the last
\* min(window, n) closes of a shorter series.
C14_TrendUsesAvailableBars ==
    IsSummaryOfBars =>
        (call.result.summary.trend = "Bullish"
            <=> RLt(AvailableMean(call.closes, 50),
                    AvailableMean(call.closes, 20)))

\* C15: get_summary on a series of exactly one bar does not raise and
\* returns day_change_pct 0, rsi 50 and volatility 0.0.
C15_OneBarFallbacks ==
    (call.op = "get_summary" /\ Len(call.closes) = 1)
        => /\ call.result.raised = "none"
           /\ call.result.summary.day_change_pct = Num(0)
           /\ call.result.summary.rsi = Num(50)
           /\ call.result.summary.volatility.is_zero

\* C15 witness: get_summary has returned the summary of a one-bar series.
C15_Witness ==
    /\ IsSummaryOfBars
    /\ Len(call.closes) = 1
    /\ call.result.summary.volatility = [is_zero |-> TRUE, vk |-> "py"]

\* C16: the running dashboard reloads the market data every update_interval
\* iterations of the loop of run_dashboard: refresh_data is called exactly
\* when update_counter, the number of iterations since the start or the last
\* reload, has reached update_interval, and never before or after.
C16_RefreshEveryInterval ==
    [][/\ refresh_data => update_counter = update_interval
       /\ no_refresh => update_counter < update_interval]_vars

\* C17: every call of the sizer as load_market_data makes it (current_price
\* a numpy float > 0, volatility >= 0, zero included) returns parameters:
\* it raises nothing, its stop distance entry_price - stop_loss is not zero
\* and risk_reward and confidence are numbers.
C17_NoDivisionFault ==
    (/\ call.op = "_calculate_position_parameters"
     /\ call.pk = "np"
     /\ FGt(call.current_price, Num(0))
     /\ FGe(call.volatility, Num(0)))
        => /\ call.result.raised = "none"
           /\ call.result.params.entry_price # call.result.params.stop_loss
           /\ ~IsNaN(call.result.params.risk_reward)
           /\ ~IsNaN(call.result.params.confidence)

\* The larger of two rationals.
Larger(a, b) == IF RLt(a, b) THEN b ELSE a

\* The stop distance as stated: regime factor f on atr x s and fraction q of
\* the daily range.
StatedStop(price, vol, s, f, q) ==
    Larger(RMul(RMul(RMul(vol, price), s), f),
           RMul(RMul(RMul(vol, price), Sqrt252), q))

\* <<stop, profit>> as stated for multipliers s and p.
StatedDistances(price, vol, s, p) ==
    IF RLt(vol, Rat(5, 1000))
    THEN <<StatedStop(price, vol, s, Num(1), Rat(10, 100)),
           RMul(RMul(StatedStop(price, vol, s, Num(1), Rat(10, 100)), p),
                Rat(11, 10))>>
    ELSE IF RLt(vol, Rat(1, 100))
    THEN <<StatedStop(price, vol, s, Rat(12, 10), Rat(15, 100)),
           RMul(StatedStop(price, vol, s, Rat(12, 10), Rat(15, 100)), p)>>
    ELSE <<StatedStop(price, vol, s, Rat(14, 10), Rat(20, 100)),
           RMul(RMul(StatedStop(price, vol, s, Rat(14, 10), Rat(20, 100)), p),
                Rat(9, 10))>>

\* The stated distances for a currency code: its multipliers in tenths, or
\* 1.3 and 2.3 for a code that is not in the table.
StatedDistancesFor(base, price, vol) ==
    IF base \in DOMAIN currency_multipliers
    THEN StatedDistances(price, vol, Rat(currency_multipliers[base][1], 10),
                         Rat(currency_multipliers[base][2], 10))
    ELSE StatedDistances(price, vol, Rat(13, 10), Rat(23, 10))

\* C18: in every result of the sizer, entry_price - stop_loss and
\* take_profit - entry_price are the stop and profit distances of the three
\* regimes with the currency's multipliers (1.3 and 2.3 for an unknown
\* code), and risk_reward is their ratio; the constants of the earlier
\* branch have no influence.
C18_DistancesFromCurrencyTable ==
    (call.op = "_calculate_position_parameters" /\ call.result.raised = "none")
        => \E d \in {StatedDistancesFor(call.base_currency, call.current_price,
                                        call.volatility)} :
               /\ RSub(call.result.params.entry_price,
                       call.result.params.stop_loss) = d[1]
               /\ RSub(call.result.params.take_profit,
                       call.result.params.entry_price) = d[2]
               /\ d[1] # Num(0)
                      => call.result.params.risk_reward = RDiv(d[2], d[1])

\* C18 witness: the unknown code XXX has been sized at a Medium volatility
\* without an error, with risk_reward 2.3.
C18_Witness ==
    /\ call.op = "_calculate_position_parameters"
    /\ call.base_currency = "XXX"
    /\ call.current_price = Rat(11, 10)
    /\ call.volatility = Rat(8, 1000)
    /\ call.result.raised = "none"
    /\ call.result.params.risk_reward = Rat(23, 10)

\* C19: the smallest risk_reward the table allows, a profit multiplier
\* x 0.9, is at least 1.53; and for every scored row with volatility > 0
\* the trade parameters have risk_reward >= 1.53 and expected_return > 0,
\* so that a Bearish row scores at most 70.
C19_ExpectedReturnPositive ==
    /\ \A c \in DOMAIN currency_multipliers :
           RLe(Rat(153, 100),
               RMul(Rat(currency_multipliers[c][2], 10), Rat(9, 10)))
    /\ (/\ call.op = "_calculate_opportunity_score"
        /\ FGt(call.row.volatility, Num(0)))
           => /\ call.result.raised = "none"
              /\ FGe(call.result.trade_params.risk_reward, Rat(153, 100))
              /\ FGt(call.result.trade_params.expected_return, Num(0))
              /\ call.row.trend = "Bearish"
                     => FLe(call.result.score, Num(70))

\* C19 witness: a Bearish row with rsi above 70, a low volatility and a
\* strong day change has scored 20 + 25 + 12.75 + 10 = 67.75, without the
\* 30 points of the trend term.
C19_Witness ==
    /\ call.op = "_calculate_opportunity_score"
    /\ call.row.trend = "Bearish"
    /\ call.row.rsi = Num(75)
    /\ call.row.volatility = Rat(3, 1000)
    /\ call.result.raised = "none"
    /\ FGt(call.result.trade_params.expected_return, Num(0))
    /\ call.result.score = Rat(6775, 100)

\* C20: get_top_opportunities on a processor whose market_data is empty
\* loads the market data and returns without error exactly the loaded
\* records with risk_reward >= min_risk_reward, in non-increasing order of
\* signal_strength, and leaves the loaded records in market_data.
C20_TopOpportunitiesLoads ==
    (call.op = "get_top_opportunities" /\ call.before = <<>>)
        => /\ call.result.raised = "none"
           /\ call.result.market_data = call.loaded
           /\ Len(call.result.opportunities) =
                  Cardinality({i \in 1..Len(call.loaded) :
                                  FGe(call.loaded[i].risk_reward,
                                      call.min_risk_reward)})
           /\ \A i \in 1..Len(call.result.opportunities) :
                  /\ FGe(call.result.opportunities[i].risk_reward,
                         call.min_risk_reward)
                  /\ \E k \in 1..Len(call.loaded) :
                         call.loaded[k] = call.result.opportunities[i]
           /\ \A i \in 1..(Len(call.result.opportunities) - 1) :
                  FGe(call.result.opportunities[i].signal_strength,
                      call.result.opportunities[i + 1].signal_strength)

\* The medal the i-th line of a ranking deserves.
RankMedal(i) == IF i = 1 THEN "gold" ELSE IF i = 2 THEN "silver" ELSE "bronze"

\* C21: the footer on display lists the (up to) three highest-scoring records
\* of the cache in rank order, and its i-th line carries the medal of rank i:
\* gold for the first, silver for the second, bronze for the third, whatever
\* index label the record has.
C21_MedalsFollowRank ==
    (displayed.rendered /\ displayed.layout.table # <<>>) =>
        /\ Len(displayed.layout.footer) = Len(head(displayed.layout.table, 3))
        /\ \A i \in 1..Len(displayed.layout.footer) :
              /\ displayed.layout.footer[i].pair = displayed.layout.table[i].pair
              /\ displayed.layout.footer[i].medal = RankMedal(i)

=============================================================================
